---- MODULE Spec2Model ----
(***************************************************************************)
(* Tenant isolation layer of the analytics platform: the membership store, *)
(* the role policy (rbac), the access guard (assertRole), the org-scoped   *)
(* database wrapper (OrgDatabase), orgMiddleware and its org-id            *)
(* extraction, the sign-up bootstrap (events.createUser), the HTTP routes  *)
(* /api/projects and /api/org, the server actions createProject,           *)
(* switchActiveOrg and getOrgDashboard, and the boolean role checks        *)
(* hasOrgAccess and canAccessOrg.                                          *)
(*                                                                         *)
(* JavaScript values that can be null, undefined or NaN are tagged         *)
(* records, so that a comparison with NaN is false and parseInt is a real  *)
(* conversion from a string of characters to a number.                     *)
(***************************************************************************)
EXTENDS Integers, Sequences, FiniteSets, TLC

VARIABLES
    users,              \* rows of table users: set of user ids (serial)
    organizations,      \* rows of table organizations
    userOrganizations,  \* rows of table user_organizations (the memberships)
    projects,           \* rows of table projects
    events,             \* rows of table events
    kpiSnapshots,       \* rows of table kpi_snapshots
    gateways,           \* the OrgDatabase instances constructed so far
    inFlight,           \* createProject calls that have drawn their key
                        \* and not yet run their insert
    last                \* the call just made and what it returned or threw,
                        \* until its caller has taken the result

vars == <<users, organizations, userOrganizations, projects, events,
          kpiSnapshots, gateways, inFlight, last>>

-----------------------------------------------------------------------------
(* Bounds of the model *)

MaxUsers == 2          \* users that sign up (one personal organization each)
MaxMemberships == 2    \* rows of user_organizations
MaxGateways == 2       \* OrgDatabase instances alive
MaxProjects == 2       \* rows of projects
MaxEvents == 1         \* rows of events
MaxKpis == 2           \* rows of kpi_snapshots
MaxCalls == 2          \* createProject calls in flight at once

-----------------------------------------------------------------------------
(* JavaScript values *)

Null == [kind |-> "null"]
Undefined == [kind |-> "undefined"]
NaN == [kind |-> "NaN"]
Num(n) == [kind |-> "number", n |-> n]
Str(s) == [kind |-> "string", chars |-> s]

IsNum(v) == v.kind = "number"

\* JavaScript truthiness: null, undefined, NaN, 0 and "" are falsy
Truthy(v) ==
    CASE v.kind = "number" -> v.n # 0
      [] v.kind = "string" -> v.chars # <<>>
      [] OTHER -> FALSE

\* x === y on numbers (NaN is equal to nothing, itself included)
NumEq(a, b) == IsNum(a) /\ IsNum(b) /\ a.n = b.n

DigitChars == <<"0", "1", "2", "3", "4", "5", "6", "7", "8", "9">>

IsDigit(c) == \E i \in 1..10 : DigitChars[i] = c

DigitVal(c) == (CHOOSE i \in 1..10 : DigitChars[i] = c) - 1

RECURSIVE DigitRun(_)
\* the longest prefix of s made of decimal digits
DigitRun(s) ==
    IF s = <<>> \/ ~IsDigit(Head(s)) THEN <<>>
    ELSE <<Head(s)>> \o DigitRun(Tail(s))

RECURSIVE DecimalValue(_)
DecimalValue(d) ==
    IF d = <<>> THEN 0
    ELSE DecimalValue(SubSeq(d, 1, Len(d) - 1)) * 10 + DigitVal(d[Len(d)])

RECURSIVE TrimStart(_)
TrimStart(s) ==
    IF s # <<>> /\ Head(s) = " " THEN TrimStart(Tail(s)) ELSE s

\* parseInt(v, 10): leading white space is skipped, then an optional sign,
\* then the longest run of digits; no digit gives NaN.  A value that is not
\* a string is first converted to one ("undefined", "null"), which has no
\* digit.
parseInt(v) ==
    IF v.kind # "string" THEN NaN
    ELSE LET t == TrimStart(v.chars)
             signed == t # <<>> /\ Head(t) \in {"+", "-"}
             d == DigitRun(IF signed THEN Tail(t) ELSE t)
         IN  IF d = <<>> THEN NaN
             ELSE IF signed /\ Head(t) = "-" THEN Num(0 - DecimalValue(d))
             ELSE Num(DecimalValue(d))

\* String(n) for a small non-negative integer (user ids, org ids)
RECURSIVE DecimalChars(_)
DecimalChars(n) ==
    IF n < 10 THEN <<DigitChars[n + 1]>>
    ELSE DecimalChars(n \div 10) \o <<DigitChars[(n % 10) + 1]>>

toString(n) == Str(DecimalChars(n))

-----------------------------------------------------------------------------
(* Role policy *)

Roles == {"member", "admin", "owner"}

ROLES == [owner |-> 3, admin |-> 2, member |-> 1]

\* variant: a role satisfies only the roles strictly below it
hasMinimumRoleStrict(userRole, requiredRole) ==
    ROLES[userRole] > ROLES[requiredRole]

hasMinimumRole(userRole, requiredRole) == ROLES[userRole] >= ROLES[requiredRole]

-----------------------------------------------------------------------------
(* The store after the migration: every table is empty *)

NoCall == [op |-> "none"]

Init ==
    /\ users = {}
    /\ organizations = {}
    /\ userOrganizations = {}
    /\ projects = {}
    /\ events = {}
    /\ kpiSnapshots = {}
    /\ gateways = <<>>
    /\ inFlight = <<>>
    /\ last = NoCall

UserIds == 1..MaxUsers

\* no call is awaiting the delivery of its result
Idle == last.op = "none"

\* the caller takes the result of its call
Respond ==
    /\ ~Idle
    /\ last' = NoCall
    /\ UNCHANGED <<users, organizations, userOrganizations, projects, events,
                   kpiSnapshots, gateways, inFlight>>

OrgIds == {o.id : o \in organizations}

\* serial primary keys: the next value of the sequence
NextId(rows) == Cardinality(rows) + 1

-----------------------------------------------------------------------------
(* Sessions: getServerSession(authOptions) runs callbacks.session on the    *)
(* JWT of the request.                                                      *)

LocalParts == <<"a", "B", "c", "d">>

\* the e-mail address of user u (users.email is unique and not null)
EmailOf(u) == Str(<<LocalParts[u], "@", "x">>)

Token(sub, email) == [kind |-> "token", sub |-> sub, email |-> email]

\* the JWTs a request can carry: none, the token of a signed-up user, a
\* token without e-mail and a token without subject
Tokens ==
    {Null, Token(toString(1), Null), Token(Undefined, EmailOf(1))}
        \cup {Token(toString(u), EmailOf(u)) : u \in UserIds}

\* callbacks.session: the organizations and roles of the user with this
\* e-mail address
userOrgs(email) ==
    {[id |-> mo[2].id, name |-> mo[2].name, slug |-> mo[2].slug,
      role |-> mo[1].role] :
        mo \in {mo \in userOrganizations \X organizations :
                    /\ mo[2].id = mo[1].organizationId
                    /\ mo[1].userId \in users
                    /\ EmailOf(mo[1].userId) = email}}

\* session.user.id and session.user.organizations are set only when the
\* session has an e-mail and the token a subject
getServerSession(token) ==
    IF token.kind = "null" THEN Null
    ELSE IF Truthy(token.email) /\ Truthy(token.sub)
    THEN [kind |-> "session", email |-> token.email, id |-> token.sub,
          organizations |-> userOrgs(token.email)]
    ELSE [kind |-> "session", email |-> token.email, id |-> Undefined,
          organizations |-> Undefined]

-----------------------------------------------------------------------------
(* Results of a call: a returned value or a thrown Error(message) *)

Return(v) == [ok |-> TRUE, value |-> v]
Throw(message) == [ok |-> FALSE, error |-> message]

ErrNoSession == "Unauthorized: No session found"
ErrNoValidSession == "Unauthorized: No valid session"
ErrNotMember == "Forbidden: User not a member of this organization"
ErrRequiresRole == "Forbidden: Requires one of these roles"
ErrProjectNotFound == "Project not found or access denied"
ErrPostgres == "PostgresError"
ErrDuplicateKey ==
    "duplicate key value violates unique constraint projects_api_key_unique"

-----------------------------------------------------------------------------
(* Sign-up: the adapter inserts the user row, then events.createUser gives *)
(* the user a personal organization and makes them its owner.               *)

\* email.split('@')[0]: the characters before the first '@'
LocalPart(chars) ==
    IF \E i \in DOMAIN chars : chars[i] = "@"
    THEN SubSeq(chars, 1,
                (CHOOSE i \in DOMAIN chars :
                    /\ chars[i] = "@"
                    /\ \A k \in 1..(i - 1) : chars[k] # "@") - 1)
    ELSE chars

UpperCase == <<"A", "B", "C", "D", "N">>
LowerCase == <<"a", "b", "c", "d", "n">>

\* String.prototype.toLowerCase
toLowerCase(chars) ==
    [i \in DOMAIN chars |->
        IF \E k \in DOMAIN UpperCase : UpperCase[k] = chars[i]
        THEN LowerCase[CHOOSE k \in DOMAIN UpperCase : UpperCase[k] = chars[i]]
        ELSE chars[i]]

OrgNameSuffix ==
    <<"'", "s", " ", "O", "r", "g", "a", "n", "i", "z", "a", "t", "i", "o", "n">>

\* `${user.name || user.email.split('@')[0]}'s Organization`
OrgName(user) ==
    Str((IF Truthy(user.name) THEN user.name.chars
         ELSE LocalPart(user.email.chars)) \o OrgNameSuffix)

\* `${user.email.split('@')[0]}-${Date.now()}`.toLowerCase()
OrgSlug(user, now) ==
    Str(toLowerCase(LocalPart(user.email.chars) \o <<"-">> \o DecimalChars(now)))

\* user.name as the identity provider gives it: absent, empty or a name
DisplayNames == {Null, Str(<<>>), Str(<<"N">>)}

\* variant: the catch block passes the error on to the sign-in
createUserRethrow(error) == [logged |-> TRUE, result |-> Throw(error)]

\* the catch block of events.createUser: console.error, nothing rethrown
createUserCatch(error) == [logged |-> TRUE, result |-> Return(Undefined)]

\* events.createUser({user}) for the user row the adapter has just inserted.
\* faultOrg, faultMembership: the insert into organizations, into
\* user_organizations fails; Date.now() is a clock that ticks between
\* sign-ups.
createUser(name, faultOrg, faultMembership) ==
    /\ Idle
    /\ Cardinality(users) < MaxUsers
    /\ Cardinality(userOrganizations) < MaxMemberships
    /\ LET u == NextId(users)
           user == [id |-> toString(u), email |-> EmailOf(u), name |-> name]
           newOrg == [id |-> NextId(organizations),
                      name |-> OrgName(user),
                      slug |-> OrgSlug(user, u),
                      plan |-> "free",
                      billingEmail |-> user.email]
           outcome == IF faultOrg \/ faultMembership
                      THEN createUserCatch(ErrPostgres)
                      ELSE [logged |-> FALSE, result |-> Return(Undefined)]
       IN  /\ users' = users \cup {u}
           /\ IF Truthy(user.email) /\ Truthy(user.id)
              THEN /\ organizations' = IF faultOrg THEN organizations
                                       ELSE organizations \cup {newOrg}
                   /\ userOrganizations' =
                        IF faultOrg \/ faultMembership THEN userOrganizations
                        ELSE userOrganizations \cup
                                {[userId |-> parseInt(user.id).n,
                                  organizationId |-> newOrg.id,
                                  role |-> "owner"]}
                   /\ last' = [op |-> "createUser", user |-> user,
                               faultOrg |-> faultOrg,
                               faultMembership |-> faultMembership,
                               before |-> [organizations |-> organizations,
                                           userOrganizations |-> userOrganizations],
                               logged |-> outcome.logged,
                               result |-> outcome.result]
              ELSE /\ UNCHANGED <<organizations, userOrganizations>>
                   /\ last' = [op |-> "createUser", user |-> user,
                               faultOrg |-> FALSE, faultMembership |-> FALSE,
                               before |-> [organizations |-> organizations,
                                           userOrganizations |-> userOrganizations],
                               logged |-> FALSE, result |-> Return(Undefined)]
    /\ UNCHANGED <<projects, events, kpiSnapshots, gateways, inFlight>>

\* a sign-up without display name whose two inserts succeed
SignUp == createUser(Null, FALSE, FALSE)

(* Rows of user_organizations written outside the wrapper (invitation,     *)
(* removal): the table admits a row when user and organization exist and   *)
(* uniq_user_org holds.                                                     *)

InsertMembership(u, o, r) ==
    /\ Idle
    /\ Cardinality(userOrganizations) < MaxMemberships
    /\ u \in users /\ o \in OrgIds
    /\ ~\E m \in userOrganizations : m.userId = u /\ m.organizationId = o
    /\ userOrganizations' = userOrganizations \cup
         {[userId |-> u, organizationId |-> o, role |-> r]}
    /\ UNCHANGED <<users, organizations, projects, events, kpiSnapshots,
                   gateways, last, inFlight>>

DeleteMembership(m) ==
    /\ Idle
    /\ m \in userOrganizations
    /\ userOrganizations' = userOrganizations \ {m}
    /\ UNCHANGED <<users, organizations, projects, events, kpiSnapshots,
                   gateways, last, inFlight>>

-----------------------------------------------------------------------------
(* Access guard *)

\* the membership rows of (orgId, userId); a NaN parameter matches no row
MembershipRows(orgId, userId) ==
    {m \in userOrganizations :
        /\ NumEq(Num(m.organizationId), orgId)
        /\ NumEq(Num(m.userId), userId)}

\* variant: the lookup forgets the user and finds any member of the org
MembershipRowsAnyUser(orgId, userId) ==
    {m \in userOrganizations : NumEq(Num(m.organizationId), orgId)}

\* the same, inner-joined with organizations
MembershipRowsJoined(orgId, userId) ==
    {m \in MembershipRows(orgId, userId) :
        \E o \in organizations : o.id = m.organizationId}

\* variant: the caller's role must satisfy every required role
assertRoleEveryRole(token, orgId, requiredRoles, fault) ==
    LET session == getServerSession(token) IN
    IF session.kind = "null" \/ ~Truthy(session.email)
    THEN Throw(ErrNoSession)
    ELSE IF fault THEN Throw(ErrPostgres)
    ELSE LET userOrg == MembershipRowsJoined(orgId, parseInt(session.id)) IN
         IF userOrg = {} THEN Throw(ErrNotMember)
         ELSE LET userRole == (CHOOSE m \in userOrg : TRUE).role
                  hasPermission ==
                      \A role \in requiredRoles : hasMinimumRole(userRole, role)
              IN  IF ~hasPermission THEN Throw(ErrRequiresRole)
                  ELSE Return([userRole |-> userRole, orgId |-> orgId])

\* assertRole(orgId, requiredRoles) under the session of `token`; `fault`
\* is the membership query failing in the driver
assertRole(token, orgId, requiredRoles, fault) ==
    LET session == getServerSession(token) IN
    IF session.kind = "null" \/ ~Truthy(session.email)
    THEN Throw(ErrNoSession)
    ELSE IF fault THEN Throw(ErrPostgres)
    ELSE LET userOrg == MembershipRowsJoined(orgId, parseInt(session.id)) IN
         IF userOrg = {} THEN Throw(ErrNotMember)
         ELSE LET userRole == (CHOOSE m \in userOrg : TRUE).role
                  hasPermission ==
                      \E role \in requiredRoles : hasMinimumRole(userRole, role)
              IN  IF ~hasPermission THEN Throw(ErrRequiresRole)
                  ELSE Return([userRole |-> userRole, orgId |-> orgId])

\* the org ids a caller passes: NaN (parseInt of a non-numeric string),
\* negative, zero, and ids of organizations that exist or not
OrgIdArgs == {NaN, Num(0 - 1), Num(0)} \cup {Num(o) : o \in UserIds}

\* the role lists of the callers (['member'], ['admin', 'owner']), the full
\* list, a single high role and the empty list
RequiredRoleSets ==
    {{"member"}, {"admin", "owner"}, {"member", "admin", "owner"}, {"owner"}, {}}

AssertRole ==
    \E token \in Tokens, orgId \in OrgIdArgs, requiredRoles \in RequiredRoleSets,
       fault \in BOOLEAN :
        /\ Idle
        /\ last' = [op |-> "assertRole", token |-> token, orgId |-> orgId,
                    requiredRoles |-> requiredRoles, fault |-> fault,
                    result |-> assertRole(token, orgId, requiredRoles, fault)]
        /\ UNCHANGED <<users, organizations, userOrganizations, projects,
                       events, kpiSnapshots, gateways, inFlight>>

HasMinimumRole ==
    \E userRole \in Roles, requiredRole \in Roles :
        /\ Idle
        /\ last' = [op |-> "hasMinimumRole", userRole |-> userRole,
                    requiredRole |-> requiredRole,
                    result |-> hasMinimumRole(userRole, requiredRole)]
        /\ UNCHANGED <<users, organizations, userOrganizations, projects,
                       events, kpiSnapshots, gateways, inFlight>>

NextGuard ==
    \/ SignUp
    \/ \E u \in UserIds, o \in UserIds, r \in Roles : InsertMembership(u, o, r)
    \/ \E m \in userOrganizations : DeleteMembership(m)
    \/ AssertRole
    \/ HasMinimumRole
    \/ Respond

SpecGuard == Init /\ [][NextGuard]_vars

\* getServerSession(authOptions) on a request that carries `token`
GetServerSession ==
    \E token \in Tokens :
        /\ Idle
        /\ last' = [op |-> "getServerSession", token |-> token,
                    result |-> getServerSession(token)]
        /\ UNCHANGED <<users, organizations, userOrganizations, projects,
                       events, kpiSnapshots, gateways, inFlight>>

\* Sign-ups with every outcome of the bootstrap, and the sessions after them
NextBootstrap ==
    \/ \E name \in DisplayNames, faultOrg \in BOOLEAN, faultMembership \in BOOLEAN :
          createUser(name, faultOrg, faultMembership)
    \/ GetServerSession
    \/ Respond

SpecBootstrap == Init /\ [][NextBootstrap]_vars

-----------------------------------------------------------------------------
(* OrgDatabase: the org-scoped database wrapper *)

\* variant: a failed membership query is swallowed and the wrapper returned
createFailOpen(token, orgId, fault) ==
    LET session == getServerSession(token) IN
    IF session.kind = "null" \/ ~Truthy(session.id)
    THEN Throw(ErrNoValidSession)
    ELSE IF ~fault /\ MembershipRows(orgId, parseInt(session.id)) = {}
    THEN Throw(ErrNotMember)
    ELSE Return([orgId |-> orgId, userId |-> session.id])

\* variant: the wrapper is returned without the membership query
createUnverified(token, orgId, fault) ==
    LET session == getServerSession(token) IN
    IF session.kind = "null" \/ ~Truthy(session.id)
    THEN Throw(ErrNoValidSession)
    ELSE IF fault THEN Throw(ErrPostgres)
    ELSE Return([orgId |-> orgId, userId |-> session.id])

\* OrgDatabase.create(orgId) under the session of `token`
create(token, orgId, fault) ==
    LET session == getServerSession(token) IN
    IF session.kind = "null" \/ ~Truthy(session.id)
    THEN Throw(ErrNoValidSession)
    ELSE IF fault THEN Throw(ErrPostgres)
    ELSE IF MembershipRows(orgId, parseInt(session.id)) = {}
    THEN Throw(ErrNotMember)
    ELSE Return([orgId |-> orgId, userId |-> session.id])

Create ==
    \E token \in Tokens, orgId \in OrgIdArgs, fault \in BOOLEAN :
        LET result == create(token, orgId, fault) IN
        /\ Idle
        /\ Len(gateways) < MaxGateways
        /\ gateways' = IF result.ok THEN Append(gateways, result.value)
                       ELSE gateways
        /\ last' = [op |-> "create", token |-> token, orgId |-> orgId,
                    fault |-> fault, result |-> result]
        /\ UNCHANGED <<users, organizations, userOrganizations, projects,
                       events, kpiSnapshots, inFlight>>

\* where(eq(table.organizationId, this.orgId))
InOrg(row, this) == NumEq(Num(row.organizationId), this.orgId)

\* a wrapper that would look the membership up again on every call
getProjectsReverified(this) ==
    IF MembershipRows(this.orgId, parseInt(this.userId)) = {} THEN {}
    ELSE {p \in projects : InOrg(p, this)}

getProjects(this) == {p \in projects : InOrg(p, this)}

\* the query of getProject run on the rows `table` of projects
SelectProject(table, this, projectId) ==
    LET result == {p \in table : p.id = projectId /\ InOrg(p, this)}
    IN  IF result = {} THEN Null ELSE CHOOSE p \in result : TRUE

\* variant: the project is selected by id alone
getProjectAnyOrg(this, projectId) ==
    LET result == {p \in projects : p.id = projectId}
    IN  IF result = {} THEN Null ELSE CHOOSE p \in result : TRUE

\* variant: a project of another organization is answered with a marker
getProjectForbidden(this, projectId) ==
    IF SelectProject(projects, this, projectId) = Null
       /\ \E p \in projects : p.id = projectId
    THEN [kind |-> "forbidden"]
    ELSE SelectProject(projects, this, projectId)

getProject(this, projectId) == SelectProject(projects, this, projectId)

RECURSIVE OrderBy(_, _)
\* the rows of S in ascending order of column col (then of id)
OrderBy(S, col) ==
    IF S = {} THEN <<>>
    ELSE LET first == CHOOSE r \in S : \A q \in S :
                          \/ r[col] < q[col]
                          \/ r[col] = q[col] /\ r.id <= q.id
         IN  <<first>> \o OrderBy(S \ {first}, col)

Limit(rows, limit) ==
    SubSeq(rows, 1, IF Len(rows) < limit THEN Len(rows) ELSE limit)

DefaultLimit == 1000

getEvents(this, projectId, limit) ==
    LET rows == {e \in events :
                    /\ InOrg(e, this)
                    /\ Truthy(projectId) => NumEq(Num(e.projectId), projectId)}
    IN  Limit(OrderBy(rows, "timestamp"), limit)

getKpiSnapshots(this, projectId, key) ==
    LET rows == {k \in kpiSnapshots :
                    /\ InOrg(k, this)
                    /\ Truthy(projectId) => NumEq(k.projectId, projectId)
                    /\ Truthy(key) => k.key = key}
    IN  OrderBy(rows, "periodStart")

getOrganization(this) ==
    Limit(OrderBy({o \in organizations : NumEq(Num(o.id), this.orgId)}, "id"), 1)

\* the values generateApiKey() can draw
ApiKeys == {"keyA", "keyB"}

\* the row createProject inserts for a drawn key
NewProject(this, apiKey) ==
    [id |-> NextId(projects), organizationId |-> this.orgId.n,
     apiKey |-> apiKey, isActive |-> TRUE]

\* the values object of insertEvent: the fields of eventData are spread
\* after organizationId and projectId and so replace them
EventValues(this, projectId, eventData) ==
    eventData @@ [organizationId |-> this.orgId.n, projectId |-> projectId]

\* the row the table stores: serial id and defaultNow() timestamp
NewEvent(values) ==
    values @@ [id |-> NextId(events), timestamp |-> NextId(events)]

\* foreign keys of events
EventForeignKeys(row) ==
    /\ row.organizationId \in OrgIds
    /\ \E p \in projects : p.id = row.projectId

ProjectIdArgs == 1..(MaxProjects + 1)

\* projectId?: absent, 0, or a number
OptProjectIdArgs == {Undefined, Num(0)} \cup {Num(p) : p \in 1..MaxProjects}

\* eventData objects: the declared fields only, or with a further
\* organizationId property
EventDataArgs ==
    {[eventName |-> "page_view"]}
        \cup {[eventName |-> "page_view", organizationId |-> o] : o \in OrgIds}

KpiKey == Str(<<"v">>)

OptKeyArgs == {Undefined, KpiKey}

GetProjects(i) ==
    /\ Idle
    /\ last' = [op |-> "getProjects", gateway |-> i,
                result |-> Return(getProjects(gateways[i]))]
    /\ UNCHANGED <<users, organizations, userOrganizations, projects, events,
                   kpiSnapshots, gateways, inFlight>>

GetProject(i, projectId) ==
    /\ Idle
    /\ last' = [op |-> "getProject", gateway |-> i, projectId |-> projectId,
                result |-> Return(getProject(gateways[i], projectId))]
    /\ UNCHANGED <<users, organizations, userOrganizations, projects, events,
                   kpiSnapshots, gateways, inFlight>>

GetEvents(i, projectId, limit) ==
    /\ Idle
    /\ last' = [op |-> "getEvents", gateway |-> i, projectId |-> projectId,
                limit |-> limit,
                result |-> Return(getEvents(gateways[i], projectId, limit))]
    /\ UNCHANGED <<users, organizations, userOrganizations, projects, events,
                   kpiSnapshots, gateways, inFlight>>

GetKpiSnapshots(i, projectId, key) ==
    /\ Idle
    /\ last' = [op |-> "getKpiSnapshots", gateway |-> i,
                projectId |-> projectId, key |-> key,
                result |-> Return(getKpiSnapshots(gateways[i], projectId, key))]
    /\ UNCHANGED <<users, organizations, userOrganizations, projects, events,
                   kpiSnapshots, gateways, inFlight>>

GetOrganization(i) ==
    /\ Idle
    /\ last' = [op |-> "getOrganization", gateway |-> i,
                result |-> Return(getOrganization(gateways[i]))]
    /\ UNCHANGED <<users, organizations, userOrganizations, projects, events,
                   kpiSnapshots, gateways, inFlight>>

GetOrgId(i) ==
    /\ Idle
    /\ last' = [op |-> "getOrgId", gateway |-> i,
                result |-> Return(gateways[i].orgId)]
    /\ UNCHANGED <<users, organizations, userOrganizations, projects, events,
                   kpiSnapshots, gateways, inFlight>>

GetUserId(i) ==
    /\ Idle
    /\ last' = [op |-> "getUserId", gateway |-> i,
                result |-> Return(gateways[i].userId)]
    /\ UNCHANGED <<users, organizations, userOrganizations, projects, events,
                   kpiSnapshots, gateways, inFlight>>

\* variant: projects.api_key carries no unique constraint
ApiKeyUniqueDropped(table, apiKey) == TRUE

\* projects_api_key_unique admits a row with this key into `table`
ApiKeyUnique(table, apiKey) == ~\E p \in table : p.apiKey = apiKey

\* createProject run without interleaving: the key is drawn and the insert
\* fails on projects_api_key_unique
CreateProject(i, apiKey) ==
    LET row == NewProject(gateways[i], apiKey)
        duplicate == ~ApiKeyUnique(projects, apiKey)
    IN  /\ Idle
        /\ Cardinality(projects) < MaxProjects
        /\ projects' = IF duplicate THEN projects ELSE projects \cup {row}
        /\ last' = [op |-> "createProject", gateway |-> i, apiKey |-> apiKey,
                    result |-> IF duplicate THEN Throw(ErrDuplicateKey)
                               ELSE Return(<<row>>)]
        /\ UNCHANGED <<users, organizations, userOrganizations, events,
                       kpiSnapshots, gateways, inFlight>>

InsertEvent(i, projectId, eventData) ==
    LET this == gateways[i]
        project == getProject(this, projectId)
        row == NewEvent(EventValues(this, projectId, eventData))
        result == IF project = Null THEN Throw(ErrProjectNotFound)
                  ELSE IF ~EventForeignKeys(row) THEN Throw(ErrPostgres)
                  ELSE Return(<<row>>)
    IN  /\ Idle
        /\ Cardinality(events) < MaxEvents
        /\ events' = IF result.ok THEN events \cup {row} ELSE events
        /\ last' = [op |-> "insertEvent", gateway |-> i,
                    projectId |-> projectId, eventData |-> eventData,
                    before |-> events, result |-> result]
        /\ UNCHANGED <<users, organizations, userOrganizations, projects,
                       kpiSnapshots, gateways, inFlight>>

(* Concurrent createProject calls: each call first draws its key          *)
(* (generateApiKey) and later runs its insert; calls of other requests may *)
(* run between the two steps. The insert is one statement, serialized by   *)
(* the unique index.                                                        *)

Remove(seq, j) == SubSeq(seq, 1, j - 1) \o SubSeq(seq, j + 1, Len(seq))

CreateProjectGenerate(i, apiKey) ==
    /\ Idle
    /\ Len(inFlight) < MaxCalls
    /\ inFlight' = Append(inFlight, [gateway |-> i, apiKey |-> apiKey])
    /\ UNCHANGED <<users, organizations, userOrganizations, projects, events,
                   kpiSnapshots, gateways, last>>

CreateProjectInsert(j) ==
    LET call == inFlight[j]
        row == NewProject(gateways[call.gateway], call.apiKey)
        admitted == ApiKeyUnique(projects, call.apiKey)
    IN  /\ Idle
        /\ Cardinality(projects) < MaxProjects
        /\ projects' = IF admitted THEN projects \cup {row} ELSE projects
        /\ inFlight' = Remove(inFlight, j)
        /\ last' = [op |-> "createProject", gateway |-> call.gateway,
                    apiKey |-> call.apiKey, others |-> inFlight',
                    result |-> IF admitted THEN Return(<<row>>)
                               ELSE Throw(ErrDuplicateKey)]
        /\ UNCHANGED <<users, organizations, userOrganizations, events,
                       kpiSnapshots, gateways>>

\* Sign-ups, wrappers and interleaved createProject calls
NextConcurrent ==
    \/ SignUp
    \/ Create
    \/ \E i \in DOMAIN gateways, apiKey \in ApiKeys :
          CreateProjectGenerate(i, apiKey)
    \/ \E j \in DOMAIN inFlight : CreateProjectInsert(j)
    \/ Respond

SpecConcurrent == Init /\ [][NextConcurrent]_vars

(* Rows of kpi_snapshots are written outside the wrapper: the table admits *)
(* a row when its organization and project exist and                       *)
(* uniq_org_project_key_period holds (a null project_id never conflicts).  *)

\* the rows of `table` that uniq_org_project_key_period finds in conflict
\* with `row`: a null project_id is distinct from every project_id
KpiConflicts(table, row) ==
    {k \in table :
        /\ k.organizationId = row.organizationId
        /\ IsNum(k.projectId) /\ k.projectId = row.projectId
        /\ k.key = row.key
        /\ k.periodStart = row.periodStart}

\* foreign keys of kpi_snapshots
KpiForeignKeys(row) ==
    /\ row.organizationId \in OrgIds
    /\ IsNum(row.projectId) => \E p \in projects : p.id = row.projectId.n

InsertKpiSnapshot(o, projectId) ==
    LET row == [id |-> NextId(kpiSnapshots), organizationId |-> o,
                projectId |-> projectId, key |-> KpiKey, periodStart |-> 1,
                value |-> 1]
    IN  /\ Idle
        /\ Cardinality(kpiSnapshots) < MaxKpis
        /\ KpiForeignKeys(row)
        /\ KpiConflicts(kpiSnapshots, row) = {}
        /\ kpiSnapshots' = kpiSnapshots \cup {row}
        /\ UNCHANGED <<users, organizations, userOrganizations, projects,
                       events, gateways, last, inFlight>>

\* the calls on the wrapper that read or write projects and events
GatewayOp(i) ==
    \/ GetProjects(i)
    \/ \E projectId \in ProjectIdArgs : GetProject(i, projectId)
    \/ \E projectId \in OptProjectIdArgs, limit \in {1, DefaultLimit} :
          GetEvents(i, projectId, limit)
    \/ GetOrganization(i)
    \/ GetOrgId(i)
    \/ GetUserId(i)
    \/ \E apiKey \in ApiKeys : CreateProject(i, apiKey)
    \/ \E projectId \in ProjectIdArgs, eventData \in EventDataArgs :
          InsertEvent(i, projectId, eventData)

\* Sign-ups, construction of wrappers and their calls on projects and events
Next ==
    \/ SignUp
    \/ Create
    \/ \E i \in DOMAIN gateways : GatewayOp(i)
    \/ Respond

Spec == Init /\ [][Next]_vars

\* Sign-ups, the guard and the construction of wrappers
NextAccess ==
    \/ SignUp
    \/ AssertRole
    \/ Create
    \/ Respond

SpecAccess == Init /\ [][NextAccess]_vars

\* Sign-ups, wrappers, projects and the KPI snapshots read through a wrapper
NextKpi ==
    \/ SignUp
    \/ Create
    \/ \E i \in DOMAIN gateways, apiKey \in ApiKeys : CreateProject(i, apiKey)
    \/ \E o \in UserIds, projectId \in {Null} \cup {Num(p) : p \in 1..MaxProjects} :
          InsertKpiSnapshot(o, projectId)
    \/ \E i \in DOMAIN gateways, projectId \in OptProjectIdArgs, key \in OptKeyArgs :
          GetKpiSnapshots(i, projectId, key)
    \/ Respond

SpecKpi == Init /\ [][NextKpi]_vars

(* The writer of KPI snapshots (no writer is part of the sources): an      *)
(* upsert, insert-or-replace, that takes the unique constraint of the      *)
(* table as its serialization point: the row is inserted, and on a         *)
(* conflict reported by uniq_org_project_key_period the value of the       *)
(* existing row is replaced.                                                *)

KpiValues == {1, 2}

UpsertKpiSnapshot(o, projectId, value) ==
    LET row == [id |-> NextId(kpiSnapshots), organizationId |-> o,
                projectId |-> projectId, key |-> KpiKey, periodStart |-> 1,
                value |-> value]
        conflicts == KpiConflicts(kpiSnapshots, row)
    IN  /\ Idle
        /\ KpiForeignKeys(row)
        /\ conflicts = {} => Cardinality(kpiSnapshots) < MaxKpis
        /\ kpiSnapshots' =
              IF conflicts = {} THEN kpiSnapshots \cup {row}
              ELSE (kpiSnapshots \ conflicts)
                       \cup {[k EXCEPT !.value = value] : k \in conflicts}
        /\ last' = [op |-> "upsertKpiSnapshot", organizationId |-> o,
                    projectId |-> projectId, value |-> value,
                    before |-> kpiSnapshots, result |-> Return(Undefined)]
        /\ UNCHANGED <<users, organizations, userOrganizations, projects,
                       events, gateways, inFlight>>

\* Sign-ups, wrappers, projects and the writers of KPI snapshots
NextUpsert ==
    \/ SignUp
    \/ Create
    \/ \E i \in DOMAIN gateways, apiKey \in ApiKeys : CreateProject(i, apiKey)
    \/ \E o \in UserIds, projectId \in {Null} \cup {Num(p) : p \in 1..MaxProjects},
          value \in KpiValues : UpsertKpiSnapshot(o, projectId, value)
    \/ Respond

SpecUpsert == Init /\ [][NextUpsert]_vars

-----------------------------------------------------------------------------
(* Middleware: the org id of a request *)

ApiOrgPrefix == <<"/", "a", "p", "i", "/", "o", "r", "g", "/">>

RECURSIVE MatchApiOrg(_)
\* pathname.match(/\/api\/org\/(\d+)/): the digits captured by the leftmost
\* match, or null
MatchApiOrg(path) ==
    IF Len(path) <= Len(ApiOrgPrefix) THEN Null
    ELSE IF /\ SubSeq(path, 1, Len(ApiOrgPrefix)) = ApiOrgPrefix
            /\ IsDigit(path[Len(ApiOrgPrefix) + 1])
         THEN Str(DigitRun(SubSeq(path, Len(ApiOrgPrefix) + 1, Len(path))))
         ELSE MatchApiOrg(Tail(path))

\* variant: the header is tried before the query parameter
getOrgIdFromRequestHeaderFirst(req) ==
    IF Truthy(req.header) THEN parseInt(req.header)
    ELSE IF Truthy(req.query) THEN parseInt(req.query)
    ELSE IF MatchApiOrg(req.pathname).kind # "null"
         THEN parseInt(MatchApiOrg(req.pathname))
    ELSE Null

\* req: searchParams.get('orgId'), headers.get('x-org-id'), nextUrl.pathname
getOrgIdFromRequest(req) ==
    IF Truthy(req.query) THEN parseInt(req.query)
    ELSE IF Truthy(req.header) THEN parseInt(req.header)
    ELSE IF MatchApiOrg(req.pathname).kind # "null"
         THEN parseInt(MatchApiOrg(req.pathname))
    ELSE Null

\* values of the orgId parameter and of the x-org-id header
OrgIdStrings ==
    {Null, Str(<<>>), Str(<<"4", "2">>), Str(<<"9", "9">>), Str(<<"0">>),
     Str(<<"-", "5">>), Str(<<"x">>), Str(<<"7", "x">>)}

Pathnames ==
    {<<"/", "a", "p", "i", "/", "p">>,
     <<"/", "a", "p", "i", "/", "o", "r", "g", "/", "7", "/", "p">>,
     <<"/", "a", "p", "i", "/", "o", "r", "g", "/", "x">>,
     <<"/", "o", "r", "g", "/", "7", "/", "p">>}

Requests ==
    {[query |-> q, header |-> h, pathname |-> p] :
        q \in OrgIdStrings, h \in OrgIdStrings, p \in Pathnames}

GetOrgIdFromRequest ==
    \E req \in Requests :
        /\ Idle
        /\ last' = [op |-> "getOrgIdFromRequest", req |-> req,
                    result |-> getOrgIdFromRequest(req)]
        /\ UNCHANGED <<users, organizations, userOrganizations, projects,
                       events, kpiSnapshots, gateways, inFlight>>

\* isValidOrgId: a number, positive and an integer (NaN is neither)
isValidOrgId(orgId) == IsNum(orgId) /\ orgId.n > 0

\* parseOrgId(value: string | null)
parseOrgId(value) ==
    IF ~Truthy(value) THEN Null
    ELSE LET parsed == parseInt(value)
         IN  IF isValidOrgId(parsed) THEN parsed ELSE Null

\* getOrgIdFromHeaders(req): the x-org-id header the middleware has set
getOrgIdFromHeaders(req) ==
    IF Truthy(req.header) THEN parseInt(req.header) ELSE Null

ParseOrgId ==
    \E value \in OrgIdStrings :
        /\ Idle
        /\ last' = [op |-> "parseOrgId", value |-> value,
                    result |-> parseOrgId(value)]
        /\ UNCHANGED <<users, organizations, userOrganizations, projects,
                       events, kpiSnapshots, gateways, inFlight>>

GetOrgIdFromHeaders ==
    \E req \in Requests :
        /\ Idle
        /\ last' = [op |-> "getOrgIdFromHeaders", req |-> req,
                    result |-> getOrgIdFromHeaders(req)]
        /\ UNCHANGED <<users, organizations, userOrganizations, projects,
                       events, kpiSnapshots, gateways, inFlight>>

NextExtract ==
    \/ GetOrgIdFromRequest
    \/ GetOrgIdFromHeaders
    \/ ParseOrgId
    \/ Respond

SpecExtract == Init /\ [][NextExtract]_vars

-----------------------------------------------------------------------------
(* HTTP routes /api/projects *)

\* The users and memberships behind the requests: sign-ups, whose
\* organization insert may fail, and memberships given to users that exist
Tenancy ==
    \/ \E faultOrg \in BOOLEAN : createUser(Null, faultOrg, FALSE)
    \/ \E u \in UserIds, o \in UserIds, r \in Roles : InsertMembership(u, o, r)

\* NextResponse.json(body, {status})
Json(status, body) == [status |-> status, body |-> body]

\* error.message.includes('Forbidden') || error.message.includes('not a
\* member'), over the messages the callees throw
IncludesForbidden(message) == message \in {ErrNotMember, ErrRequiresRole}

\* error.message.includes('Unauthorized')
IncludesUnauthorized(message) == message \in {ErrNoSession, ErrNoValidSession}

\* the catch block of GET /api/projects
GetProjectsCatch(message) ==
    IF IncludesForbidden(message)
    THEN Json(403, [error |-> "Access denied to organization"])
    ELSE IF IncludesUnauthorized(message)
    THEN Json(401, [error |-> "Authentication required"])
    ELSE Json(500, [error |-> "Internal server error"])

\* the catch block of POST /api/projects
PostProjectsCatch(message) ==
    IF IncludesForbidden(message)
    THEN Json(403, [error |-> "Access denied to organization"])
    ELSE Json(500, [error |-> "Internal server error"])

\* !session?.user?.id
NoSessionUser(session) == session.kind = "null" \/ ~Truthy(session.id)

\* searchParams.get('orgId'): absent, not a number, or the decimal form of
\* an org id
OrgIdParams == {Null, Str(<<"x">>)} \cup {toString(o) : o \in UserIds}

\* body.name: absent, empty, blank, a name, or not a string
NameArgs == {Undefined, Str(<<>>), Str(<<" ">>), Str(<<"P">>), Num(1)}

\* GET /api/projects?orgId=
GetApiProjects ==
    \E token \in Tokens, orgId \in OrgIdParams, fault \in BOOLEAN :
        LET session == getServerSession(token)
            orgDb == create(token, parseInt(orgId), fault)
            response ==
                IF NoSessionUser(session)
                THEN Json(401, [error |-> "Unauthorized"])
                ELSE IF ~Truthy(orgId)
                THEN Json(400, [error |-> "Organization ID required"])
                ELSE IF ~orgDb.ok THEN GetProjectsCatch(orgDb.error)
                ELSE Json(200, [success |-> TRUE,
                                orgId |-> orgDb.value.orgId,
                                projects |-> getProjects(orgDb.value),
                                count |-> Cardinality(getProjects(orgDb.value))])
        IN  /\ Idle
            /\ last' = [op |-> "GET /api/projects", token |-> token,
                        orgId |-> orgId, fault |-> fault,
                        gateway |-> ~NoSessionUser(session) /\ Truthy(orgId),
                        response |-> response]
            /\ UNCHANGED <<users, organizations, userOrganizations, projects,
                           events, kpiSnapshots, gateways, inFlight>>

\* POST /api/projects?orgId= with body {name}; apiKey is the key that
\* generateApiKey draws
PostApiProjects ==
    \E token \in Tokens, orgId \in OrgIdParams, name \in NameArgs,
       apiKey \in ApiKeys, fault \in BOOLEAN :
        LET session == getServerSession(token)
            validated == /\ ~NoSessionUser(session)
                         /\ Truthy(orgId)
                         /\ Truthy(name) /\ name.kind = "string"
            orgDb == create(token, parseInt(orgId), fault)
            row == NewProject(orgDb.value, apiKey)
            thrown == IF ~validated THEN "none"
                      ELSE IF ~orgDb.ok THEN orgDb.error
                      ELSE IF ~ApiKeyUnique(projects, apiKey)
                      THEN ErrDuplicateKey
                      ELSE "none"
            response ==
                IF NoSessionUser(session)
                THEN Json(401, [error |-> "Unauthorized"])
                ELSE IF ~Truthy(orgId)
                THEN Json(400, [error |-> "Organization ID required"])
                ELSE IF ~(Truthy(name) /\ name.kind = "string")
                THEN Json(400, [error |-> "Project name is required"])
                ELSE IF thrown # "none" THEN PostProjectsCatch(thrown)
                ELSE Json(200, [success |-> TRUE,
                                message |-> "Project created successfully",
                                project |-> row])
        IN  /\ Idle
            /\ Cardinality(projects) < MaxProjects
            /\ projects' = IF response.status = 200
                            THEN projects \cup {row} ELSE projects
            /\ last' = [op |-> "POST /api/projects", token |-> token,
                        orgId |-> orgId, name |-> name, fault |-> fault,
                        gateway |-> validated, thrown |-> thrown,
                        before |-> projects, response |-> response]
            /\ UNCHANGED <<users, organizations, userOrganizations, events,
                           kpiSnapshots, gateways, inFlight>>

(* HTTP route /api/org *)

\* body.orgId: absent, a string, zero, or a number
OrgIdBodies == {Undefined, Str(<<"1">>), Num(0)} \cup {Num(o) : o \in UserIds}

\* the membership of the route joined with its organization:
\* {role, orgId, orgName, orgSlug}
MembershipWithOrg(orgId, userId) ==
    {[role |-> m.role, orgId |-> o.id, orgName |-> o.name, orgSlug |-> o.slug] :
        <<m, o>> \in {mo \in MembershipRows(orgId, userId) \X organizations :
                        mo[2].id = mo[1].organizationId}}

\* POST /api/org with body {orgId}; `fault` is the membership query failing
PostApiOrg ==
    \E token \in Tokens, orgId \in OrgIdBodies, fault \in BOOLEAN :
        LET session == getServerSession(token)
            membership == MembershipWithOrg(orgId, parseInt(session.id))
            org == CHOOSE row \in membership : TRUE
            response ==
                IF NoSessionUser(session)
                THEN Json(401, [error |-> "Unauthorized"])
                ELSE IF ~Truthy(orgId) \/ orgId.kind # "number"
                THEN Json(400, [error |-> "Invalid organization ID"])
                ELSE IF fault
                THEN Json(500, [error |-> "Internal server error"])
                ELSE IF membership = {}
                THEN Json(403, [error |-> "Access denied to organization"])
                ELSE Json(200, [success |-> TRUE,
                                activeOrg |-> [id |-> org.orgId,
                                               name |-> org.orgName,
                                               slug |-> org.orgSlug,
                                               role |-> org.role]])
        IN  /\ Idle
            /\ last' = [op |-> "POST /api/org", token |-> token,
                        orgId |-> orgId, fault |-> fault, gateway |-> FALSE,
                        response |-> response]
            /\ UNCHANGED <<users, organizations, userOrganizations, projects,
                           events, kpiSnapshots, gateways, inFlight>>

\* Sign-ups, membership changes and the HTTP routes
NextRoutes ==
    \/ Tenancy
    \/ GetApiProjects
    \/ PostApiProjects
    \/ PostApiOrg
    \/ Respond

SpecRoutes == Init /\ [][NextRoutes]_vars

-----------------------------------------------------------------------------
(* Server actions *)

RECURSIVE TrimEnd(_)
TrimEnd(s) ==
    IF s # <<>> /\ s[Len(s)] = " " THEN TrimEnd(SubSeq(s, 1, Len(s) - 1)) ELSE s

\* String.prototype.trim
trim(s) == TrimEnd(TrimStart(s))

ErrNameRequired == "Project name is required"
ErrTypeError == "projectData.name.trim is not a function"
ErrOrgNotFound == "Organization not found"

\* the query that fails in the driver: none, the one of assertRole or the
\* one of getOrgDb
ActionFaults == {"none", "assertRole", "getOrgDb"}

\* createProject(orgId, projectData) of org-actions; apiKey is the key that
\* generateApiKey draws
ActionCreateProject ==
    \E token \in Tokens, orgId \in OrgIdArgs, name \in NameArgs,
       apiKey \in ApiKeys, fault \in ActionFaults :
        LET guard == assertRole(token, orgId, {"admin", "owner"},
                                fault = "assertRole")
            orgDb == create(token, orgId, fault = "getOrgDb")
            row == NewProject(orgDb.value, apiKey)
            thrown == IF ~guard.ok THEN guard.error
                      ELSE IF ~Truthy(name) THEN ErrNameRequired
                      ELSE IF name.kind # "string" THEN ErrTypeError
                      ELSE IF Len(trim(name.chars)) = 0 THEN ErrNameRequired
                      ELSE IF ~orgDb.ok THEN orgDb.error
                      ELSE IF ~ApiKeyUnique(projects, apiKey)
                      THEN ErrDuplicateKey
                      ELSE "none"
            response == IF thrown = "none"
                        THEN [success |-> TRUE, data |-> row]
                        ELSE [success |-> FALSE, error |-> thrown]
        IN  /\ Idle
            /\ Cardinality(projects) < MaxProjects
            /\ projects' = IF response.success
                            THEN projects \cup {row} ELSE projects
            /\ last' = [op |-> "actions.createProject", token |-> token,
                        orgId |-> orgId, name |-> name, fault |-> fault,
                        before |-> projects, response |-> response]
            /\ UNCHANGED <<users, organizations, userOrganizations, events,
                           kpiSnapshots, gateways, inFlight>>

\* Sign-ups, membership changes and the two entry points that create a
\* project
NextEntry ==
    \/ Tenancy
    \/ PostApiProjects
    \/ ActionCreateProject
    \/ Respond

SpecEntry == Init /\ [][NextEntry]_vars

\* switchActiveOrg(orgId) of org-actions; `fault` is the membership query
\* of getOrgDb failing
SwitchActiveOrg ==
    \E token \in Tokens, orgId \in OrgIdArgs, fault \in BOOLEAN :
        LET orgDb == create(token, orgId, fault)
            found == getOrganization(orgDb.value)
            organization == found[1]
            thrown == IF ~orgDb.ok THEN orgDb.error
                      ELSE IF found = <<>> THEN ErrOrgNotFound
                      ELSE "none"
            response == IF thrown = "none"
                        THEN [success |-> TRUE,
                              data |-> [id |-> organization.id,
                                        name |-> organization.name,
                                        slug |-> organization.slug]]
                        ELSE [success |-> FALSE, error |-> thrown]
        IN  /\ Idle
            /\ last' = [op |-> "actions.switchActiveOrg", token |-> token,
                        orgId |-> orgId, fault |-> fault,
                        response |-> response]
            /\ UNCHANGED <<users, organizations, userOrganizations, projects,
                           events, kpiSnapshots, gateways, inFlight>>

\* Sign-ups, membership changes and the two organization switches
NextSwitch ==
    \/ Tenancy
    \/ PostApiOrg
    \/ SwitchActiveOrg
    \/ Respond

SpecSwitch == Init /\ [][NextSwitch]_vars

(* Dashboard: getOrgDashboard of org-actions reads the projects, a page of *)
(* events and the KPI snapshots of one organization through a wrapper.     *)

\* the limit that getOrgDashboard passes to getEvents
RecentEventsLimit == 10

\* an event that a wrapper bound to the project's organization stores
\* (insertEvent with the declared fields only). Events arrive project by
\* project, and up to MaxEvents more than one page of the dashboard holds.
IngestEvent(p) ==
    LET this == [orgId |-> Num(p.organizationId)]
        row == NewEvent(EventValues(this, p.id, [eventName |-> "page_view"]))
    IN  /\ Idle
        /\ Cardinality(events) < RecentEventsLimit + MaxEvents
        /\ \A e \in events : e.projectId <= p.id
        /\ getProject(this, p.id) # Null
        /\ EventForeignKeys(row)
        /\ events' = events \cup {row}
        /\ UNCHANGED <<users, organizations, userOrganizations, projects,
                       kpiSnapshots, gateways, inFlight, last>>

\* getOrgDashboard(orgId)
GetOrgDashboard ==
    \E token \in Tokens, orgId \in OrgIdArgs, fault \in ActionFaults :
        LET guard == assertRole(token, orgId, {"member"},
                                fault = "assertRole")
            orgDb == create(token, orgId, fault = "getOrgDb")
            this == orgDb.value
            orgProjects == getProjects(this)
            recentEvents == getEvents(this, Undefined, RecentEventsLimit)
            snapshots == getKpiSnapshots(this, Undefined, Undefined)
            thrown == IF ~guard.ok THEN guard.error
                      ELSE IF ~orgDb.ok THEN orgDb.error
                      ELSE "none"
            response ==
                IF thrown = "none"
                THEN [success |-> TRUE,
                      data |-> [organization |-> getOrganization(this),
                                metrics |->
                                    [totalProjects |->
                                         Cardinality(orgProjects),
                                     activeProjects |-> Cardinality(
                                         {q \in orgProjects : q.isActive}),
                                     totalEvents |-> Len(recentEvents)],
                                projects |-> orgProjects,
                                recentEvents |-> recentEvents,
                                kpiSnapshots |-> snapshots]]
                ELSE [success |-> FALSE, error |-> thrown]
        IN  /\ Idle
            /\ last' = [op |-> "actions.getOrgDashboard", token |-> token,
                        orgId |-> orgId, fault |-> fault,
                        response |-> response]
            /\ UNCHANGED <<users, organizations, userOrganizations, projects,
                           events, kpiSnapshots, gateways, inFlight>>

\* Sign-ups, projects created by their owners, ingested events and the
\* dashboard
NextDashboard ==
    \/ SignUp
    \/ ActionCreateProject
    \/ \E p \in projects : IngestEvent(p)
    \/ GetOrgDashboard
    \/ Respond

SpecDashboard == Init /\ [][NextDashboard]_vars

(* Lifetime of a wrapper: memberships are removed while wrappers built for *)
(* them are still in use.                                                   *)

\* Sign-ups, removal of memberships, the guard, construction of wrappers
\* and their reads and writes of projects
NextLifetime ==
    \/ SignUp
    \/ \E m \in userOrganizations : DeleteMembership(m)
    \/ AssertRole
    \/ Create
    \/ \E i \in DOMAIN gateways : GetProjects(i)
    \/ \E i \in DOMAIN gateways, apiKey \in ApiKeys : CreateProject(i, apiKey)
    \/ Respond

SpecLifetime == Init /\ [][NextLifetime]_vars

(* orgMiddleware: the check in front of the API routes *)

\* verifyOrgAccess(token, orgId): the organizations claim of the JWT.
\* callbacks.jwt writes the subject only, so a token created by this
\* program has no such claim and `token.organizations || []` is empty.
verifyOrgAccess(token, orgId) ==
    LET userOrganizationsOfToken ==
            IF "organizations" \in DOMAIN token THEN token.organizations
            ELSE {}
    IN  \E org \in userOrganizationsOfToken : NumEq(Num(org.id), orgId)

\* NextResponse.next(): the request goes on to the route with these
\* x-org-id header
Forward(header) == [kind |-> "next", header |-> header]

Forbidden403 ==
    [kind |-> "response", status |-> 403,
     error |-> "Forbidden: No access to this organization"]

\* orgMiddleware(req); token is what getToken reads from the request
orgMiddleware(token, req) ==
    IF token.kind = "null" THEN Forward(req.header)
    ELSE LET orgId == getOrgIdFromRequest(req) IN
         IF ~Truthy(orgId) THEN Forward(req.header)
         ELSE IF ~verifyOrgAccess(token, orgId) THEN Forbidden403
         ELSE Forward(toString(orgId.n))

\* requests that name organizations of the store: in the query, in the
\* header, in the path, with a query that is not a number, or nowhere
OrgRequests ==
    {[query |-> q, header |-> h, pathname |-> path] :
        q \in {Null, Str(<<"x">>)} \cup {toString(o) : o \in UserIds},
        h \in {Null} \cup {toString(o) : o \in UserIds},
        path \in {<<"/", "a", "p", "i", "/", "p">>,
                  ApiOrgPrefix \o <<"1">>}}

OrgMiddleware ==
    \E token \in Tokens, req \in OrgRequests :
        /\ Idle
        /\ last' = [op |-> "orgMiddleware", token |-> token, req |-> req,
                    response |-> orgMiddleware(token, req)]
        /\ UNCHANGED <<users, organizations, userOrganizations, projects,
                       events, kpiSnapshots, gateways, inFlight>>

\* Sign-ups, membership changes and requests through the middleware
NextMiddleware ==
    \/ Tenancy
    \/ OrgMiddleware
    \/ Respond

SpecMiddleware == Init /\ [][NextMiddleware]_vars

(* The boolean role checks: hasOrgAccess of org-utils reads the            *)
(* organizations of the session, canAccessOrg of rbac calls assertRole.    *)

\* the query that fails: none, the one of callbacks.session (getServerSession
\* rejects) or the membership query of assertRole
CheckFaults == {"none", "session", "assertRole"}

\* session.user.organizations is set: callbacks.session sets it together
\* with session.user.id
HasOrganizations(session) == session.id # Undefined

\* getUserOrgMembership(orgId): session.user.organizations.find(...) || null
getUserOrgMembership(token, orgId, fault) ==
    IF fault = "session" THEN Throw(ErrPostgres)
    ELSE LET session == getServerSession(token) IN
         IF session.kind = "null" THEN Return(Null)
         ELSE IF ~HasOrganizations(session) THEN Return(Null)
         ELSE LET found == {org \in session.organizations :
                               NumEq(Num(org.id), orgId)}
              IN  IF found = {} THEN Return(Null)
                  ELSE Return(CHOOSE org \in found : TRUE)

\* variant: a hierarchy that ranks admin above owner, unlike ROLES
roleHierarchySwapped == [member |-> 1, admin |-> 3, owner |-> 2]

\* roleHierarchy of hasOrgAccess
roleHierarchy == [member |-> 1, admin |-> 2, owner |-> 3]

\* the body of the try block of hasOrgAccess
hasOrgAccessTry(token, orgId, minRole, fault) ==
    LET membership == getUserOrgMembership(token, orgId, fault) IN
    IF ~membership.ok THEN membership
    ELSE IF membership.value = Null THEN Return(FALSE)
    ELSE LET userRoleLevel ==
                 IF membership.value.role \in DOMAIN roleHierarchy
                 THEN roleHierarchy[membership.value.role] ELSE 0
             minRoleLevel == roleHierarchy[minRole]
         IN  Return(userRoleLevel >= minRoleLevel)

\* hasOrgAccess(orgId, minRole): try { ... } catch { return false }
hasOrgAccess(token, orgId, minRole, fault) ==
    LET attempt == hasOrgAccessTry(token, orgId, minRole, fault) IN
    IF attempt.ok THEN attempt ELSE Return(FALSE)

\* assertRole as the request runs it: getServerSession first, then the
\* membership query
assertRoleOfRequest(token, orgId, requiredRoles, fault) ==
    IF fault = "session" THEN Throw(ErrPostgres)
    ELSE assertRole(token, orgId, requiredRoles, fault = "assertRole")

\* canAccessOrg(orgId): try { await assertRole(orgId, ['member']) ... }
canAccessOrg(token, orgId, fault) ==
    IF assertRoleOfRequest(token, orgId, {"member"}, fault).ok
    THEN Return(TRUE) ELSE Return(FALSE)

HasOrgAccess ==
    \E token \in Tokens, orgId \in OrgIdArgs, minRole \in Roles,
       fault \in CheckFaults :
        /\ Idle
        /\ last' = [op |-> "hasOrgAccess", token |-> token, orgId |-> orgId,
                    minRole |-> minRole, fault |-> fault,
                    result |-> hasOrgAccess(token, orgId, minRole, fault)]
        /\ UNCHANGED <<users, organizations, userOrganizations, projects,
                       events, kpiSnapshots, gateways, inFlight>>

CanAccessOrg ==
    \E token \in Tokens, orgId \in OrgIdArgs, fault \in CheckFaults :
        /\ Idle
        /\ last' = [op |-> "canAccessOrg", token |-> token, orgId |-> orgId,
                    fault |-> fault,
                    result |-> canAccessOrg(token, orgId, fault)]
        /\ UNCHANGED <<users, organizations, userOrganizations, projects,
                       events, kpiSnapshots, gateways, inFlight>>

\* Sign-ups, membership changes and the two boolean checks
NextChecks ==
    \/ Tenancy
    \/ HasOrgAccess
    \/ CanAccessOrg
    \/ Respond

SpecChecks == Init /\ [][NextChecks]_vars

-----------------------------------------------------------------------------
(* Properties *)

Range(seq) == {seq[i] : i \in DOMAIN seq}

\* the fixed order of the roles, lowest first
RoleOrder == <<"member", "admin", "owner">>

Rank(role) == CHOOSE i \in 1..3 : RoleOrder[i] = role

\* the token carries a caller identity: a subject and an e-mail
Established(token) ==
    /\ token.kind = "token"
    /\ token.sub.kind = "string"
    /\ token.email.kind = "string"

\* the user a token with a subject names
CallerOf(token) == CHOOSE u \in UserIds : toString(u) = token.sub

\* a Membership(u, orgId) row is stored
HasMembership(u, orgId) ==
    /\ IsNum(orgId)
    /\ \E m \in userOrganizations :
          m.userId = u /\ m.organizationId = orgId.n

RoleOfMember(u, orgId) ==
    (CHOOSE m \in userOrganizations :
        m.userId = u /\ m.organizationId = orgId.n).role

\* the organization a wrapper is bound to
BoundOrg(i) == gateways[i].orgId.n

\* C1: every row a wrapper bound to organization A returns or writes has
\* organization id A, for every operation and every argument.
TenantIsolation ==
    /\ last.op \in {"getProjects"} =>
          \A r \in last.result.value : r.organizationId = BoundOrg(last.gateway)
    /\ last.op = "getProject" /\ last.result.value # Null =>
          last.result.value.organizationId = BoundOrg(last.gateway)
    /\ last.op \in {"getEvents", "getKpiSnapshots"} =>
          \A r \in Range(last.result.value) :
              r.organizationId = BoundOrg(last.gateway)
    /\ last.op = "getOrganization" =>
          \A r \in Range(last.result.value) : r.id = BoundOrg(last.gateway)
    /\ last.op \in {"createProject", "insertEvent"} /\ last.result.ok =>
          \A r \in Range(last.result.value) :
              r.organizationId = BoundOrg(last.gateway)

\* C2: a call of assertRole with all three roles by an identified caller U
\* for organization O, whose membership query is answered, succeeds exactly
\* when a Membership(U, O) row is stored.
AuthorizeAnyRoleIffMember ==
    (/\ last.op = "assertRole"
     /\ last.requiredRoles = {"member", "admin", "owner"}
     /\ Established(last.token)
     /\ ~last.fault)
    => (last.result.ok <=> HasMembership(CallerOf(last.token), last.orgId))

AuthorizeAnyRoleIffMemberWitness ==
    /\ last.op = "assertRole"
    /\ last.requiredRoles = {"member", "admin", "owner"}
    /\ Established(last.token)
    /\ ~last.fault
    /\ HasMembership(CallerOf(last.token), last.orgId)
    /\ RoleOfMember(CallerOf(last.token), last.orgId) = "member"
    /\ last.result.ok

\* C3: assertRole by an identified caller fails with the not-a-member error
\* when no Membership(caller, org) is stored, fails with the
\* requires-one-of-these-roles error when the membership's role satisfies
\* none of the required roles, and otherwise returns the caller's role.
AuthorizeOutcome ==
    (/\ last.op = "assertRole"
     /\ Established(last.token)
     /\ ~last.fault)
    => LET u == CallerOf(last.token) IN
       IF ~HasMembership(u, last.orgId)
       THEN last.result = Throw(ErrNotMember)
       ELSE IF ~\E required \in last.requiredRoles :
                   Rank(RoleOfMember(u, last.orgId)) >= Rank(required)
       THEN last.result = Throw(ErrRequiresRole)
       ELSE /\ last.result.ok
            /\ last.result.value.userRole = RoleOfMember(u, last.orgId)

\* a member of one organization only is refused the roles admin or owner
AuthorizeOutcomeWitness ==
    /\ last.op = "assertRole"
    /\ Established(last.token)
    /\ ~last.fault
    /\ last.requiredRoles = {"admin", "owner"}
    /\ \E m \in userOrganizations :
          /\ m.userId = CallerOf(last.token)
          /\ m.role = "member"
          /\ last.orgId = Num(m.organizationId)
          /\ \A n \in userOrganizations : n.userId = m.userId => n = m
    /\ last.result = Throw(ErrRequiresRole)

\* the request carries no caller identity
NoIdentity(token) == ~Established(token)

\* the org id is NaN, zero or negative
Malformed(orgId) == ~IsNum(orgId) \/ orgId.n <= 0

\* C4: assertRole and OrgDatabase.create never succeed without a caller
\* identity, when the membership query fails, or for a malformed org id: the
\* call throws and no wrapper is constructed.
FailClosed ==
    [][(/\ last'.op \in {"assertRole", "create"}
        /\ \/ NoIdentity(last'.token)
           \/ last'.fault
           \/ Malformed(last'.orgId))
       => /\ ~last'.result.ok
          /\ gateways' = gateways]_vars

\* the owner of the organization is refused a wrapper because the query fails
FailClosedWitness ==
    /\ last.op = "create"
    /\ Established(last.token)
    /\ HasMembership(CallerOf(last.token), last.orgId)
    /\ last.fault
    /\ ~last.result.ok

\* C5: hasMinimumRole is defined on every pair of roles and is true exactly
\* when the rank of the actual role is at least the rank of the required one.
RolePolicy ==
    last.op = "hasMinimumRole" =>
        /\ last.result \in BOOLEAN
        /\ last.result <=> Rank(last.userRole) >= Rank(last.requiredRole)
        /\ Rank(last.requiredRole) <= Rank(last.userRole) => last.result
        /\ (last.result /\ Rank(last.userRole) <= Rank(last.requiredRole))
              => last.userRole = last.requiredRole

RolePolicyWitness ==
    /\ last.op = "hasMinimumRole"
    /\ last.userRole = "admin"
    /\ last.requiredRole = "owner"
    /\ last.result = FALSE

\* C6: create returns a wrapper only to a caller with a membership for the
\* requested org; the wrapper is bound to the requested org id and to the
\* caller of the session; no later step changes a wrapper's bound values.
CreatedForMember ==
    (last.op = "create" /\ last.result.ok) =>
        /\ Established(last.token)
        /\ HasMembership(CallerOf(last.token), last.orgId)
        /\ gateways # <<>>
        /\ gateways[Len(gateways)] =
              [orgId |-> last.orgId, userId |-> last.token.sub]

GatewayBinding ==
    [][/\ CreatedForMember'
       /\ \A i \in DOMAIN gateways :
            i \in DOMAIN gateways' /\ gateways'[i] = gateways[i]]_vars

\* a wrapper of user 1 for organization 1 has written an event
GatewayBindingWitness ==
    /\ last.op = "insertEvent"
    /\ last.result.ok
    /\ gateways[last.gateway] = [orgId |-> Num(1), userId |-> toString(1)]

\* the project id names a project of organization A
NamesProjectOf(projectId, A) ==
    \E p \in projects : p.id = projectId /\ p.organizationId = A

\* C7: insertEvent on a wrapper bound to A throws the project-not-found
\* error and leaves the events table unchanged whenever the project id does
\* not name a project of A.
InsertEventRejectsForeignProject ==
    (/\ last.op = "insertEvent"
     /\ ~NamesProjectOf(last.projectId, BoundOrg(last.gateway)))
    => /\ last.result = Throw(ErrProjectNotFound)
       /\ events = last.before

\* the project exists, in another organization
InsertEventRejectsForeignProjectWitness ==
    /\ last.op = "insertEvent"
    /\ \E p \in projects :
          p.id = last.projectId /\ p.organizationId # BoundOrg(last.gateway)
    /\ last.result = Throw(ErrProjectNotFound)

\* C8: every stored event has the organization id of the project it
\* references.
EventOrgEqualsProjectOrg ==
    \A e \in events : \A p \in projects :
        p.id = e.projectId => e.organizationId = p.organizationId

\* C9: getProject on a wrapper bound to A returns the project exactly when
\* it exists and belongs to A, and its result is the one it gives on the
\* store without the projects of the other organizations.
AntiEnumeration ==
    last.op = "getProject" =>
        LET A == BoundOrg(last.gateway)
            own == {p \in projects : p.organizationId = A}
        IN  /\ \A p \in projects :
                  (p.id = last.projectId /\ p.organizationId = A)
                      => last.result.value = p
            /\ ~NamesProjectOf(last.projectId, A) => last.result.value = Null
            /\ last.result =
                  Return(SelectProject(own, gateways[last.gateway],
                                       last.projectId))

\* the id of another organization's project is answered with null
AntiEnumerationWitness ==
    /\ last.op = "getProject"
    /\ \E p \in projects :
          p.id = last.projectId /\ p.organizationId # BoundOrg(last.gateway)
    /\ last.result.value = Null

Chars42 == Str(<<"4", "2">>)
Chars99 == Str(<<"9", "9">>)

ExtractedOrgIdIsValid ==
    last.op = "getOrgIdFromRequest" =>
        last.result = Null \/ isValidOrgId(last.result)

\* C12: after any interleaving of createProject calls, in the same or in
\* different organizations, no two rows of projects hold the same API key.
ApiKeysUnique ==
    \A p \in projects, q \in projects : p.apiKey = q.apiKey => p = q

\* a call inserts the second row of projects while another call, which has
\* drawn its key already, is still in flight
ApiKeysUniqueWitness ==
    /\ Cardinality(projects) = 2
    /\ last.op = "createProject"
    /\ "others" \in DOMAIN last
    /\ last.result.ok
    /\ last.others # <<>>
    /\ \E p \in projects : p.apiKey = last.others[1].apiKey

\* C13 (as stated): when the key drawn by a project creation collides with
\* the key of an existing project, the caller gets an error it can tell from
\* an opaque storage failure, the existing rows are unchanged and no row is
\* inserted.
CollisionIsDuplicateCredential ==
    (last.op = "POST /api/projects" /\ last.thrown = ErrDuplicateKey) =>
        /\ last.response # PostProjectsCatch(ErrPostgres)
        /\ projects = last.before

\* C14 (as stated): at most one row of kpi_snapshots exists per
\* (organization, project, key, period start), a null project included.
KpiSnapshotUnique ==
    \A k \in kpiSnapshots, l \in kpiSnapshots :
        (/\ k.organizationId = l.organizationId
         /\ k.projectId = l.projectId
         /\ k.key = l.key
         /\ k.periodStart = l.periodStart) => k = l

\* the rows of kpi_snapshots of one (org, project, key, period start)
KpiRowsOf(o, projectId) ==
    {k \in kpiSnapshots :
        /\ k.organizationId = o
        /\ k.projectId = projectId
        /\ k.key = KpiKey
        /\ k.periodStart = 1}

\* C15 (as stated): a second write for the same (org, project, key, period
\* start) with another value is an upsert: exactly one row exists for the
\* tuple afterwards and it holds the second value.
UpsertReplaces ==
    (/\ last.op = "upsertKpiSnapshot"
     /\ \E k \in last.before :
            /\ k.organizationId = last.organizationId
            /\ k.projectId = last.projectId
            /\ k.value # last.value) =>
        /\ Cardinality(KpiRowsOf(last.organizationId, last.projectId)) = 1
        /\ \A k \in KpiRowsOf(last.organizationId, last.projectId) :
              k.value = last.value

\* the organizations and memberships that the sign-up in `last` has added
NewOrgs == organizations \ last.before.organizations
NewMemberships == userOrganizations \ last.before.userOrganizations

\* the name that the claims derive for the organization of `user`: from the
\* display name, or else from the local part of the e-mail address
DerivedName(user) ==
    IF user.name \in {Null, Str(<<>>)}
    THEN Str(LocalPart(user.email.chars) \o OrgNameSuffix)
    ELSE Str(user.name.chars \o OrgNameSuffix)

\* C16 (as stated): a sign-up whose inserts succeed creates exactly one
\* organization (plan free, name derived from the display name or else the
\* e-mail local part) and exactly one membership (user, that organization,
\* owner); and in every state every organization created by a bootstrap
\* has an owner membership of its user.
BootstrapOrgHasOwner ==
    /\ (last.op = "createUser" /\ ~last.faultOrg /\ ~last.faultMembership) =>
          /\ Cardinality(NewOrgs) = 1
          /\ \A o \in NewOrgs :
                /\ o.plan = "free"
                /\ o.name = DerivedName(last.user)
                /\ NewMemberships =
                      {[userId |-> parseInt(last.user.id).n,
                        organizationId |-> o.id, role |-> "owner"]}
    /\ \A o \in organizations :
          \E m \in userOrganizations :
              /\ m.organizationId = o.id
              /\ m.role = "owner"
              /\ EmailOf(m.userId) = o.billingEmail

\* C17: a failure of the organization insert or of the membership insert
\* is caught and logged and does not leave the createUser handler: the
\* handler returns, the user row exists, and the user has a session with
\* their id and with no organizations.
BootstrapFailureNotFatal ==
    (last.op = "createUser" /\ (last.faultOrg \/ last.faultMembership)) =>
        LET session == getServerSession(Token(last.user.id, last.user.email))
        IN  /\ last.result.ok
            /\ last.logged
            /\ parseInt(last.user.id).n \in users
            /\ session.kind = "session"
            /\ session.id = last.user.id
            /\ session.organizations = {}

\* the membership insert has failed after the organization was inserted
BootstrapFailureNotFatalWitness ==
    /\ last.op = "createUser"
    /\ ~last.faultOrg /\ last.faultMembership
    /\ last.logged /\ last.result.ok
    /\ Cardinality(NewOrgs) = 1
    /\ getServerSession(Token(last.user.id, last.user.email)).organizations = {}

\* the token names a user who has signed up
SignedUp(token) == Established(token) /\ CallerOf(token) \in users

HttpRoutes == {"GET /api/projects", "POST /api/projects", "POST /api/org"}

\* the org id of the request in `last` as a number (NaN when it is not one)
RequestOrgId ==
    IF last.op = "POST /api/org"
    THEN (IF last.orgId.kind = "number" THEN last.orgId ELSE NaN)
    ELSE parseInt(last.orgId)

\* the org id is missing or not numeric, or the project name is not a
\* string or is empty
InvalidInput ==
    \/ ~IsNum(RequestOrgId)
    \/ /\ last.op = "POST /api/projects"
       /\ ~(last.name.kind = "string" /\ last.name.chars # <<>>)

\* C18 (as stated): on the three routes a request without verified caller
\* is answered 401; with a missing or non-numeric org id or an empty
\* project name 400, and no gateway is constructed; by a caller who is not
\* a member of the target organization 403; on any other failure 500.
HttpErrorSurface ==
    last.op \in HttpRoutes =>
        LET session == getServerSession(last.token)
            status == last.response.status
        IN  /\ NoSessionUser(session) => status = 401
            /\ (SignedUp(last.token) /\ InvalidInput) =>
                  status = 400 /\ ~last.gateway
            /\ (/\ SignedUp(last.token) /\ ~InvalidInput
                 /\ RequestOrgId.n > 0 /\ ~last.fault
                 /\ ~HasMembership(CallerOf(last.token), RequestOrgId)) =>
                  status = 403
            /\ (/\ SignedUp(last.token) /\ ~InvalidInput
                 /\ RequestOrgId.n > 0 /\ last.fault) =>
                  status = 500
            /\ status \in {200, 400, 401, 403, 500}

\* the organization that the project creation in `last` names
TargetOrg ==
    IF last.op = "POST /api/projects" THEN parseInt(last.orgId) ELSE last.orgId

\* C19 (as stated): through the createProject server action and through
\* POST /api/projects a row of projects is inserted for an organization
\* only when the caller's role in it is admin or owner.
ProjectCreationRequiresAdmin ==
    (/\ last.op \in {"POST /api/projects", "actions.createProject"}
     /\ projects # last.before) =>
        /\ \A p \in projects \ last.before : Num(p.organizationId) = TargetOrg
        /\ HasMembership(CallerOf(last.token), TargetOrg)
        /\ RoleOfMember(CallerOf(last.token), TargetOrg) \in {"admin", "owner"}

SwitchOps == {"POST /api/org", "actions.switchActiveOrg"}

\* the switch in `last` has succeeded
SwitchSucceeded ==
    IF last.op = "POST /api/org" THEN last.response.status = 200
    ELSE last.response.success

\* the summary that the switch in `last` returns
SwitchSummary ==
    IF last.op = "POST /api/org" THEN last.response.body.activeOrg
    ELSE last.response.data

\* a signed-up caller switches to a numeric org id and no query fails: the
\* switch succeeds iff the caller has a membership of that organization
\* and then returns the organization's id, name, slug and the caller's role
SwitchOutcome ==
    (/\ last.op \in SwitchOps
     /\ SignedUp(last.token) /\ IsNum(last.orgId) /\ ~last.fault) =>
        LET u == CallerOf(last.token) IN
        /\ SwitchSucceeded <=> HasMembership(u, last.orgId)
        /\ SwitchSucceeded =>
              \E o \in organizations :
                  /\ o.id = last.orgId.n
                  /\ SwitchSummary = [id |-> o.id, name |-> o.name,
                                      slug |-> o.slug,
                                      role |-> RoleOfMember(u, last.orgId)]

\* C20 (as stated): POST /api/org and switchActiveOrg succeed iff the
\* caller has a membership of the target organization, return its summary
\* (id, name, slug, role), and change no stored state.
OrgSwitch ==
    [][last'.op \in SwitchOps =>
         /\ SwitchOutcome'
         /\ UNCHANGED <<users, organizations, userOrganizations, projects,
                        events, kpiSnapshots>>]_vars

\* the events stored for the organization of the dashboard call in `last`
DashboardOrgEvents == {e \in events : e.organizationId = last.orgId.n}

\* totalEvents is the length of the page the dashboard returns
DashboardTotalIsPageLength ==
    (last.op = "actions.getOrgDashboard" /\ last.response.success) =>
        last.response.data.metrics.totalEvents
            = Len(last.response.data.recentEvents)

\* C21 (as stated): for an organization holding more than 10 events the
\* dashboard returns as recentEvents the 10 events of the organization
\* with the greatest timestamps, and totalEvents is the length of that
\* page.
DashboardRecentEvents ==
    (/\ last.op = "actions.getOrgDashboard"
     /\ last.response.success
     /\ Cardinality(DashboardOrgEvents) > RecentEventsLimit)
    => LET page == Range(last.response.data.recentEvents) IN
       /\ page \subseteq DashboardOrgEvents
       /\ Cardinality(page) = RecentEventsLimit
       /\ \A e \in page : \A q \in DashboardOrgEvents \ page :
              e.timestamp >= q.timestamp
       /\ last.response.data.metrics.totalEvents
              = Len(last.response.data.recentEvents)

\* the membership that wrapper i was built for is no longer stored
Stale(i) ==
    ~HasMembership(parseInt(gateways[i].userId).n, gateways[i].orgId)

\* a wrapper built for the caller and the organization of the check in
\* `last` exists
HoldsGateway(token, orgId) ==
    \E i \in DOMAIN gateways :
        gateways[i] = [orgId |-> orgId, userId |-> token.sub]

StaleCallerRefused ==
    /\ last.op = "create"
    /\ Established(last.token) /\ ~last.fault
    /\ HoldsGateway(last.token, last.orgId)
    /\ last.result = Throw(ErrNotMember)

\* the caller of the request has a stored membership of organization orgId
CallerBelongsTo(token, orgId) ==
    /\ Established(token)
    /\ CallerOf(token) \in users
    /\ HasMembership(CallerOf(token), orgId)

\* C23 (as stated): a request that orgMiddleware forwards with an x-org-id
\* header carries the id of an organization the caller has a membership
\* of, and a request naming an organization the caller does not belong to
\* is answered 403 and not forwarded, whether or not a token is present
\* and wherever the org id comes from (query, header, path).
MiddlewareForwardsVerified ==
    last.op = "orgMiddleware" =>
        /\ (last.response.kind = "next" /\ Truthy(last.response.header)) =>
              CallerBelongsTo(last.token, parseInt(last.response.header))
        /\ (/\ IsNum(getOrgIdFromRequest(last.req))
            /\ ~CallerBelongsTo(last.token, getOrgIdFromRequest(last.req)))
           => last.response = Forbidden403

\* a request with a token that names, by a truthy number, an organization
\* the caller does not belong to is answered 403
MiddlewareRejectsNamedOrg ==
    (/\ last.op = "orgMiddleware"
     /\ last.token.kind # "null"
     /\ Truthy(getOrgIdFromRequest(last.req)))
    => last.response = Forbidden403

====
